---------------------------- MODULE Spec2Model ----------------------------
(***************************************************************************)
(* Token codec of src/src/util.ts: nintendoBase64Encode/Decode,            *)
(* generateToken, decryptToken and unpackToken.                            *)
(*                                                                         *)
(* Buffers are sequences of bytes (0..255), strings are sequences of       *)
(* one-character strings.  Unsigned 32 and 64 bit numbers are kept as      *)
(* tuples of 16-bit limbs, most significant limb first, because the        *)
(* values reach 2^64-1; a BigInt / number field that is not given is the   *)
(* value Absent (JavaScript undefined).                                    *)
(*                                                                         *)
(* The library primitives the code calls (AES-128 block cipher, HMAC-SHA1, *)
(* RSA-OAEP) are replaced by small keyed stand-ins with the same sizes and *)
(* the same failure modes; the modes of operation the code relies on       *)
(* (CBC chaining, PKCS#7 padding, base64) are computed byte for byte.      *)
(***************************************************************************)
EXTENDS Integers, Sequences, FiniteSets, TLC

VARIABLES
    keys,     \* the key provider (@/cache): [aes, rsa, secret] of service 'account'
    pc,       \* position of the issue / present / decode pipeline
    call,     \* the arguments and random draws of the generateToken call
    gen,      \* what generateToken did and returned
    wire,     \* the Buffer handed to decryptToken
    tamper,   \* what happened to the wire bytes in transit
    dec,      \* what decryptToken did and returned
    out,      \* what unpackToken did and returned
    b64in,    \* nintendoBase64: the bytes given to nintendoBase64Encode
    b64str,   \* nintendoBase64: the encoded string
    b64out    \* nintendoBase64: the bytes nintendoBase64Decode returned

vars == <<keys, pc, call, gen, wire, tamper, dec, out, b64in, b64str, b64out>>

\* A number is a tuple of limbs; the empty tuple is JavaScript's undefined.
Absent == << >>

(***************************************************************************)
(* Bytes and sequences                                                     *)
(***************************************************************************)
Byte == 0..255

Concat3(a, b, c) == a \o b \o c

\* Buffer.subarray(start, end): negative indices count from the end, both
\* ends are clamped to the buffer, an inverted range is empty.  0-based,
\* end exclusive.
Clamp(i, n) == IF i < 0 THEN (IF n + i < 0 THEN 0 ELSE n + i) ELSE (IF i > n THEN n ELSE i)

Subarray(buf, start, end) ==
    LET n == Len(buf)
        s == Clamp(start, n)
        e == Clamp(end, n)
    IN  IF e <= s THEN << >> ELSE SubSeq(buf, s + 1, e)

\* Subarray with only a start, as in token.subarray(0x96).
SubarrayFrom(buf, start) == Subarray(buf, start, Len(buf))

RECURSIVE Xor(_, _)
Xor(a, b) ==
    IF a = 0 THEN b
    ELSE IF b = 0 THEN a
    ELSE (((a % 2) + (b % 2)) % 2) + 2 * Xor(a \div 2, b \div 2)

XorSeq(a, b) == [i \in 1..Len(a) |-> Xor(a[i], b[i])]

Zeros(n) == [i \in 1..n |-> 0]

(***************************************************************************)
(* Numbers: tuples of limbs, most significant first.  A one-byte field is  *)
(* one limb below 256, a 32-bit field two 16-bit limbs, a 64-bit field     *)
(* four.                                                                   *)
(***************************************************************************)
\* buf.writeUInt8(value): one byte.  An undefined value is coerced (+value
\* is NaN) and stored as 0.
WriteUInt8(v) == IF v = Absent THEN <<0>> ELSE <<v[1] % 256>>

\* Mutant of WriteLE: the bytes in big-endian order.
RECURSIVE WriteBE(_)
WriteBE(v) ==
    IF Len(v) = 0 THEN << >>
    ELSE <<v[1] \div 256, v[1] % 256>> \o WriteBE(Tail(v))

\* Little-endian bytes of a number given as limbs (writeUInt32LE with two
\* limbs, writeBigUInt64LE with four).
RECURSIVE WriteLE(_)
WriteLE(v) ==
    IF Len(v) = 0 THEN << >>
    ELSE <<v[Len(v)] % 256, v[Len(v)] \div 256>> \o WriteLE(SubSeq(v, 1, Len(v) - 1))

\* The number stored little-endian in an even number of bytes.
RECURSIVE ReadLE(_)
ReadLE(b) ==
    IF Len(b) = 0 THEN << >>
    ELSE ReadLE(SubSeq(b, 3, Len(b))) \o <<b[2] * 256 + b[1]>>

\* Mutant of ReadInt8: the offset is taken one byte too low.
ReadInt8OffByOne(buf, off) == IF buf[off] >= 128 THEN buf[off] - 256 ELSE buf[off]

\* buf.readInt8(off): the byte at off as a signed 8-bit integer.
ReadInt8(buf, off) == IF buf[off + 1] >= 128 THEN buf[off + 1] - 256 ELSE buf[off + 1]

(***************************************************************************)
(* base64 (Buffer.toString('base64') and Buffer.from(s, 'base64'))         *)
(***************************************************************************)
Base64Alphabet ==
    << "A","B","C","D","E","F","G","H","I","J","K","L","M","N","O","P",
       "Q","R","S","T","U","V","W","X","Y","Z","a","b","c","d","e","f",
       "g","h","i","j","k","l","m","n","o","p","q","r","s","t","u","v",
       "w","x","y","z","0","1","2","3","4","5","6","7","8","9","+","/" >>

B64Char(v) == Base64Alphabet[v + 1]

ByteAt(b, i) == IF i <= Len(b) THEN b[i] ELSE 0

\* Standard base64 with '=' padding: character j of the text, from the
\* three bytes of its group.
Base64Encode(b) ==
    [j \in 1..(4 * ((Len(b) + 2) \div 3)) |->
        LET g == (j - 1) \div 4
            r == (j - 1) % 4
            b1 == ByteAt(b, 3 * g + 1)
            b2 == ByteAt(b, 3 * g + 2)
            b3 == ByteAt(b, 3 * g + 3)
        IN  IF r = 0 THEN B64Char(b1 \div 4)
            ELSE IF r = 1 THEN B64Char((b1 % 4) * 16 + (b2 \div 16))
            ELSE IF r = 2 THEN
                (IF 3 * g + 2 > Len(b) THEN "=" ELSE B64Char((b2 % 16) * 4 + (b3 \div 64)))
            ELSE
                (IF 3 * g + 3 > Len(b) THEN "=" ELSE B64Char(b3 % 64))]

B64Index ==
    [c \in {Base64Alphabet[i] : i \in 1..64} |->
        CHOOSE v \in 0..63 : Base64Alphabet[v + 1] = c]

\* The value of a character for Node's decoder: the standard alphabet, the
\* URL-safe '-' and '_' as 62 and 63, anything else is no digit (-1).
B64Value(c) ==
    IF c = "-" THEN 62
    ELSE IF c = "_" THEN 63
    ELSE IF c \in DOMAIN B64Index THEN B64Index[c]
    ELSE -1

B64IsDigit(c) == B64Value(c) >= 0

\* The digits Node's decoder sees: it stops at the first '=' and skips
\* every character that is no digit.
B64Digits(s) ==
    LET pads == {i \in 1..Len(s) : s[i] = "="}
        cut == IF pads = {} THEN s
               ELSE SubSeq(s, 1, (CHOOSE i \in pads : \A j \in pads : i <= j) - 1)
        kept == SelectSeq(cut, B64IsDigit)
    IN  [i \in 1..Len(kept) |-> B64Value(kept[i])]

\* Byte k of the decoded buffer, from the four digits of its group; a
\* trailing group of two or three digits gives one or two bytes.
B64Bytes(d) ==
    [k \in 1..((Len(d) * 6) \div 8) |->
        LET g == (k - 1) \div 3
            r == (k - 1) % 3
        IN  IF r = 0 THEN d[4 * g + 1] * 4 + (d[4 * g + 2] \div 16)
            ELSE IF r = 1 THEN (d[4 * g + 2] % 16) * 16 + (d[4 * g + 3] \div 4)
            ELSE (d[4 * g + 3] % 4) * 64 + d[4 * g + 4]]

Base64Decode(s) == B64Bytes(B64Digits(s))

\* String.replaceAll(from, to) on a string of characters.
ReplaceAll(s, from, to) == [i \in 1..Len(s) |-> IF s[i] = from THEN to ELSE s[i]]

\* Mutant of nintendoBase64Decode: '-' is not turned back into '/'.
nintendoBase64DecodeNoDash(encoded) ==
    Base64Decode(ReplaceAll(ReplaceAll(encoded, ".", "+"), "*", "="))

nintendoBase64Decode(encoded) ==
    Base64Decode(ReplaceAll(ReplaceAll(ReplaceAll(encoded, ".", "+"), "-", "/"), "*", "="))

nintendoBase64Encode(decoded) ==
    ReplaceAll(ReplaceAll(ReplaceAll(Base64Encode(decoded), "+", "."), "/", "-"), "=", "*")

(***************************************************************************)
(* AES-128-CBC (crypto.createCipheriv / createDecipheriv, update, final)   *)
(***************************************************************************)
BlockLen == 16

\* Stand-in for the AES block cipher: a keyed permutation of 16-byte
\* blocks (add the key bytewise, then running sums mod 256).
RECURSIVE RunningSum(_, _)
RunningSum(x, i) ==
    IF i = 1 THEN x[1] ELSE (x[i] + RunningSum(x, i - 1)) % 256

AesEncryptBlock(key, blk) ==
    LET x == [i \in 1..BlockLen |-> (blk[i] + key[i]) % 256]
    IN  [i \in 1..BlockLen |-> RunningSum(x, i)]

AesDecryptBlock(key, blk) ==
    LET x == [i \in 1..BlockLen |->
                IF i = 1 THEN blk[1] ELSE (blk[i] - blk[i - 1]) % 256]
    IN  [i \in 1..BlockLen |-> (x[i] - key[i]) % 256]

\* PKCS#7: always pads, with n bytes of value n, to a whole block.
Pkcs7Pad(data) ==
    LET n == BlockLen - (Len(data) % BlockLen)
    IN  data \o [i \in 1..n |-> n]

Pkcs7Valid(data) ==
    /\ Len(data) >= BlockLen
    /\ LET n == data[Len(data)]
       IN  /\ n >= 1
           /\ n <= BlockLen
           /\ \A i \in (Len(data) - n + 1)..Len(data) : data[i] = n

Pkcs7Unpad(data) == SubSeq(data, 1, Len(data) - data[Len(data)])

RECURSIVE CbcEncryptBlocks(_, _, _)
CbcEncryptBlocks(key, prev, plain) ==
    IF Len(plain) = 0 THEN << >>
    ELSE LET c == AesEncryptBlock(key, XorSeq(SubSeq(plain, 1, BlockLen), prev))
         IN  c \o CbcEncryptBlocks(key, c, SubSeq(plain, BlockLen + 1, Len(plain)))

RECURSIVE CbcDecryptBlocks(_, _, _)
CbcDecryptBlocks(key, prev, ct) ==
    IF Len(ct) = 0 THEN << >>
    ELSE LET c == SubSeq(ct, 1, BlockLen)
         IN  XorSeq(AesDecryptBlock(key, c), prev)
             \o CbcDecryptBlocks(key, c, SubSeq(ct, BlockLen + 1, Len(ct)))

\* cipher.update(data) ++ cipher.final()
AesCbcEncrypt(key, iv, data) == CbcEncryptBlocks(key, iv, Pkcs7Pad(data))

\* Mutant of AesCbcDecrypt: the padding is not checked (as with
\* setAutoPadding(false)); the whole blocks are returned as they decrypt.
AesCbcDecryptNoPadding(key, iv, ct) ==
    IF Len(key) # BlockLen THEN [ok |-> FALSE, error |-> "Invalid key length", data |-> << >>]
    ELSE IF Len(iv) # BlockLen THEN
        [ok |-> FALSE, error |-> "Invalid initialization vector", data |-> << >>]
    ELSE IF Len(ct) % BlockLen # 0 THEN
        [ok |-> FALSE, error |-> "wrong final block length", data |-> << >>]
    ELSE [ok |-> TRUE, error |-> "", data |-> CbcDecryptBlocks(key, iv, ct)]

\* createDecipheriv, decipher.update(ct) ++ decipher.final(): the plaintext,
\* or the error the library throws.
AesCbcDecrypt(key, iv, ct) ==
    IF Len(key) # BlockLen THEN [ok |-> FALSE, error |-> "Invalid key length", data |-> << >>]
    ELSE IF Len(iv) # BlockLen THEN
        [ok |-> FALSE, error |-> "Invalid initialization vector", data |-> << >>]
    ELSE IF Len(ct) = 0 \/ Len(ct) % BlockLen # 0 THEN
        [ok |-> FALSE, error |-> "wrong final block length", data |-> << >>]
    ELSE LET plain == CbcDecryptBlocks(key, iv, ct)
         IN  IF Pkcs7Valid(plain)
             THEN [ok |-> TRUE, error |-> "", data |-> Pkcs7Unpad(plain)]
             ELSE [ok |-> FALSE, error |-> "bad decrypt", data |-> << >>]

(***************************************************************************)
(* HMAC-SHA1 (crypto.createHmac('sha1', secret).update(m).digest())        *)
(***************************************************************************)
SignatureLen == 20

\* Horner evaluation, modulo the prime 257, of the polynomial whose
\* coefficients are h and then the first i bytes of m (each plus one).
RECURSIVE PolyHash(_, _, _, _)
PolyHash(h, m, base, i) ==
    IF i = 0 THEN h
    ELSE (PolyHash(h, m, base, i - 1) * base + m[i] + 1) % 257

\* Stand-in for HMAC-SHA1: 20 bytes, byte j the hash at base j + 2 of the
\* secret, the message length and the message.
HmacSha1(secret, m) ==
    [j \in 1..SignatureLen |->
        PolyHash(PolyHash(PolyHash(1, secret, j + 2, Len(secret)), <<Len(m)>>, j + 2, 1),
                 m, j + 2, Len(m)) % 256]

(***************************************************************************)
(* RSA-OAEP / SHA-256 with a 1024-bit key (NodeRSA encrypt / decrypt)      *)
(***************************************************************************)
RsaLen == 128

\* Stand-in: a key pair is a number, the public and the private key of a
\* pair are that number.  The ciphertext is the OAEP seed, the message
\* under a mask of pair and seed, and redundancy the decryption checks.
RsaMask(pair, seed, i) == (31 * pair + seed * (2 * i + 1) + i * i) % 256

RsaOaepEncrypt(pub, m, seed) ==
    [i \in 1..RsaLen |->
        IF i = 1 THEN seed
        ELSE IF i <= 1 + Len(m) THEN (m[i - 1] + RsaMask(pub, seed, i)) % 256
        ELSE RsaMask(pub, seed, i)]

RsaOaepDecrypt(priv, ct) ==
    IF /\ Len(ct) = RsaLen
       /\ \A i \in (BlockLen + 2)..RsaLen : ct[i] = RsaMask(priv, ct[1], i)
    THEN [ok |-> TRUE, error |-> "",
          data |-> [i \in 1..BlockLen |-> (ct[i + 1] - RsaMask(priv, ct[1], i + 1)) % 256]]
    ELSE [ok |-> FALSE, error |-> "Error during decryption", data |-> << >>]

(***************************************************************************)
(* generateToken                                                           *)
(***************************************************************************)
\* cryptoOptions === null
Null == [null |-> TRUE]

\* JavaScript's !v for a number or BigInt field: undefined, 0 and 0n.
Falsy(v) == v = Absent \/ \A i \in 1..Len(v) : v[i] = 0

\* Mutant of MissingLongFields: only access_level is looked at.
MissingAccessLevelOnly(tokenOptions) == Falsy(tokenOptions.access_level)

\* The condition of the else-if that returns null.
MissingLongFields(tokenOptions) ==
    Falsy(tokenOptions.access_level) \/ Falsy(tokenOptions.title_id)

\* Math.random() is r / RandDen for a draw r in 0..RandDen-1;
\* ~~((encryptedKey.length - 8) * Math.random()).
RandDen == 240

RandomPoint(encryptedKey, r) == ((Len(encryptedKey) - 8) * r) \div RandDen

ShortDataBuffer(tokenOptions) ==
    WriteUInt8(tokenOptions.system_type) \o WriteUInt8(tokenOptions.token_type)
    \o WriteLE(tokenOptions.pid) \o WriteLE(tokenOptions.expire_time)

LongDataBuffer(tokenOptions) ==
    WriteUInt8(tokenOptions.system_type) \o WriteUInt8(tokenOptions.token_type)
    \o WriteLE(tokenOptions.pid) \o WriteUInt8(tokenOptions.access_level)
    \o WriteLE(tokenOptions.title_id) \o WriteLE(tokenOptions.expire_time)

GenNothing ==
    [kind |-> "null", token |-> << >>, bytes |-> << >>, work |-> {},
     dataBuffer |-> << >>, encryptedKey |-> << >>, point1 |-> 0, point2 |-> 0,
     iv |-> << >>, signature |-> << >>]

\* What a call of generateToken returns (kind "token" with the base64
\* text, "null", or "throw") and the cryptographic steps it ran (work).
\* k is the key provider, rnd the draws of crypto.randomBytes, of the OAEP
\* seed and of the two Math.random() calls.
GenerateToken(k, cryptoOptions, tokenOptions, rnd) ==
    IF cryptoOptions = Null THEN
        LET aesKey == k.aes
            dataBuffer == ShortDataBuffer(tokenOptions)
            iv == Zeros(16)
            encryptedBody == AesCbcEncrypt(aesKey, iv, dataBuffer)
        IN  [GenNothing EXCEPT !.kind = "token",
                               !.token = Base64Encode(encryptedBody),
                               !.bytes = encryptedBody,
                               !.work = {"getServiceAESKey", "aesEncrypt"},
                               !.dataBuffer = dataBuffer,
                               !.iv = iv]
    ELSE IF MissingLongFields(tokenOptions) THEN GenNothing
    ELSE IF tokenOptions.title_id = Absent THEN
        \* writeBigUInt64LE(undefined) throws a TypeError
        [GenNothing EXCEPT !.kind = "throw"]
    ELSE
        LET dataBuffer == LongDataBuffer(tokenOptions)
            signature == HmacSha1(cryptoOptions.hmac_secret, dataBuffer)
            key == rnd.key
            encryptedKey == RsaOaepEncrypt(cryptoOptions.public_key, key, rnd.seed)
            point1 == RandomPoint(encryptedKey, rnd.r1)
            point2 == RandomPoint(encryptedKey, rnd.r2)
            iv == Subarray(encryptedKey, point1, point1 + 8)
                  \o Subarray(encryptedKey, point2, point2 + 8)
            encryptedBody == AesCbcEncrypt(key, iv, dataBuffer)
            cryptoConfig == encryptedKey \o <<point1 % 256, point2 % 256>>
            token == Concat3(cryptoConfig, signature, encryptedBody)
        IN  IF Len(key) # BlockLen \/ Len(iv) # BlockLen
            THEN \* createCipheriv throws on a key or IV of the wrong length
                 [GenNothing EXCEPT !.kind = "throw"]
            ELSE
            [kind |-> "token", token |-> Base64Encode(token), bytes |-> token,
             work |-> {"hmac", "randomBytes", "rsaEncrypt", "aesEncrypt"},
             dataBuffer |-> dataBuffer, encryptedKey |-> encryptedKey,
             point1 |-> point1, point2 |-> point2, iv |-> iv,
             signature |-> signature]

(***************************************************************************)
(* decryptToken                                                            *)
(***************************************************************************)
DecNothing ==
    [kind |-> "throw", error |-> "", buf |-> << >>, path |-> "long",
     point1 |-> 0, point2 |-> 0, window1 |-> << >>, window2 |-> << >>,
     iv |-> << >>, aesOk |-> FALSE, signatureOk |-> FALSE]

Throw(d, e) == [d EXCEPT !.kind = "throw", !.error = e]

\* Mutant of SignatureEquals: only the lengths are compared.
SignatureLengthEquals(signature, calculatedSignature) ==
    Len(signature) = Len(calculatedSignature)

\* signature.equals(calculatedSignature)
SignatureEquals(signature, calculatedSignature) == signature = calculatedSignature

\* What a call of decryptToken returns: kind "return" with the Buffer, or
\* kind "throw" with the error of the step that threw.  The record keeps
\* the offsets, the IV and the comparisons of the long path.
DecryptToken(k, token) ==
    IF Len(token) <= 32 THEN
        LET d == AesCbcDecrypt(k.aes, Zeros(16), token)
            r == [DecNothing EXCEPT !.path = "short", !.iv = Zeros(16)]
        IN  IF d.ok THEN [r EXCEPT !.kind = "return", !.buf = d.data, !.aesOk = TRUE]
            ELSE Throw(r, d.error)
    ELSE
        LET cryptoConfig == Subarray(token, 0, 130)
            signature == Subarray(token, 130, 150)
            encryptedBody == SubarrayFrom(token, 150)
            encryptedAESKey == Subarray(cryptoConfig, 0, 128)
        IN  IF Len(cryptoConfig) < 130 THEN Throw(DecNothing, "ERR_OUT_OF_RANGE")
            ELSE
            LET point1 == ReadInt8(cryptoConfig, 128)
                point2 == ReadInt8(cryptoConfig, 129)
                window1 == Subarray(encryptedAESKey, point1, point1 + 8)
                window2 == Subarray(encryptedAESKey, point2, point2 + 8)
                iv == window1 \o window2
                rsa == RsaOaepDecrypt(k.rsa, encryptedAESKey)
                r == [DecNothing EXCEPT !.point1 = point1, !.point2 = point2,
                                        !.window1 = window1, !.window2 = window2,
                                        !.iv = iv]
            IN  IF ~rsa.ok THEN Throw(r, rsa.error)
                ELSE
                LET d == AesCbcDecrypt(rsa.data, iv, encryptedBody)
                IN  IF ~d.ok THEN Throw(r, d.error)
                    ELSE IF ~SignatureEquals(signature, HmacSha1(k.secret, d.data))
                    THEN [r EXCEPT !.kind = "return", !.buf = << >>, !.aesOk = TRUE]
                    ELSE [r EXCEPT !.kind = "return", !.buf = d.data,
                                   !.aesOk = TRUE, !.signatureOk = TRUE]

(***************************************************************************)
(* unpackToken                                                             *)
(***************************************************************************)
\* A read of n bytes at offset off stays inside the buffer.
InRange(token, off, n) == off + n <= Len(token)

ReadUInt8(token, off) == <<token[off + 1]>>

ReadUIntLE(token, off, n) == ReadLE(SubSeq(token, off + 1, off + n))

UnpackNothing ==
    [kind |-> "throw", variant |-> "short", error |-> "ERR_OUT_OF_RANGE",
     system_type |-> Absent, token_type |-> Absent, pid |-> Absent,
     access_level |-> Absent, title_id |-> Absent, expire_time |-> Absent]

\* What unpackToken returns: kind "fields" with the Token, or the
\* RangeError of the first read past the end of the buffer.
UnpackToken(token) ==
    IF Len(token) <= 14 THEN
        IF ~(InRange(token, 0, 1) /\ InRange(token, 1, 1)
             /\ InRange(token, 2, 4) /\ InRange(token, 6, 8)) THEN UnpackNothing
        ELSE [UnpackNothing EXCEPT !.kind = "fields", !.error = "",
                                   !.system_type = ReadUInt8(token, 0),
                                   !.token_type = ReadUInt8(token, 1),
                                   !.pid = ReadUIntLE(token, 2, 4),
                                   !.expire_time = ReadUIntLE(token, 6, 8)]
    ELSE
        IF ~(InRange(token, 6, 1) /\ InRange(token, 7, 8) /\ InRange(token, 15, 8))
        THEN [UnpackNothing EXCEPT !.variant = "long"]
        ELSE [kind |-> "fields", variant |-> "long", error |-> "",
              system_type |-> ReadUInt8(token, 0),
              token_type |-> ReadUInt8(token, 1),
              pid |-> ReadUIntLE(token, 2, 4),
              access_level |-> ReadUInt8(token, 6),
              title_id |-> ReadUIntLE(token, 7, 8),
              expire_time |-> ReadUIntLE(token, 15, 8)]

(***************************************************************************)
(* Inputs                                                                  *)
(***************************************************************************)
KeyPairs == {1, 2}

Secrets == {<<1, 2, 3>>, <<200, 7>>}

\* The 'account' service's keys as the key provider holds them.
KeyProviders ==
    {[aes |-> Zeros(16), rsa |-> 1, secret |-> <<1, 2, 3>>],
     [aes |-> [i \in 1..16 |-> (17 * i + 3) % 256], rsa |-> 2, secret |-> <<200, 7>>]}

CryptoOptionsSet == [public_key : KeyPairs, hmac_secret : Secrets]

\* system_type, token_type, pid and expire_time: the password-reset
\* scenario (0x0F, 0x05, 100000, 1700000000000), all zero, all maximal.
BaseFields ==
    {[system_type |-> <<15>>, token_type |-> <<5>>, pid |-> <<1, 34464>>,
      expire_time |-> <<0, 395, 53221, 26624>>],
     [system_type |-> <<0>>, token_type |-> <<0>>, pid |-> <<0, 0>>,
      expire_time |-> <<0, 0, 0, 0>>],
     [system_type |-> <<255>>, token_type |-> <<255>>, pid |-> <<65535, 65535>>,
      expire_time |-> <<65535, 65535, 65535, 65535>>]}

AccessLevels == {Absent, <<0>>, <<3>>, <<255>>}

TitleIds == {Absent, <<0, 0, 0, 0>>, <<5, 0, 4112, 4660>>, <<65535, 65535, 65535, 65535>>}

WithLong(b, al, tid) ==
    [system_type |-> b.system_type, token_type |-> b.token_type, pid |-> b.pid,
     access_level |-> al, title_id |-> tid, expire_time |-> b.expire_time]

LongOptions == {WithLong(b, al, tid) : b \in BaseFields, al \in AccessLevels, tid \in TitleIds}

ShortOptions ==
    {WithLong(b, Absent, Absent) : b \in BaseFields}
    \cup {WithLong(b, <<3>>, <<5, 0, 4112, 4660>>) : b \in BaseFields}

\* The draws of one call: the random AES key, the OAEP seed, and the two
\* Math.random() values as numerators over RandDen.
RandomKeys == {[i \in 1..16 |-> (29 * i + 11) % 256], [i \in 1..16 |-> 255]}

RandomDraws == {0, RandDen \div 2, RandDen - 1}

Rnd == [key : RandomKeys, seed : {77}, r1 : RandomDraws, r2 : RandomDraws]

NoCall == [cryptoOptions |-> Null, tokenOptions |-> WithLong(CHOOSE b \in BaseFields : TRUE, Absent, Absent)]

NoTamper == [kind |-> "none", region |-> "none", pos |-> 0, bit |-> 0]

(***************************************************************************)
(* The pipeline: a caller issues a token with generateToken, the token     *)
(* text is base64-decoded by the receiving caller, then decryptToken and   *)
(* unpackToken run on the bytes.                                           *)
(***************************************************************************)
Init ==
    /\ keys \in KeyProviders
    /\ pc = "idle"
    /\ call = NoCall
    /\ gen = GenNothing
    /\ wire = << >>
    /\ tamper = NoTamper
    /\ dec = DecNothing
    /\ out = UnpackNothing
    /\ b64in = << >>
    /\ b64str = << >>
    /\ b64out = << >>

Issue(cryptoOptions, tokenOptions, rnd) ==
    /\ pc = "idle"
    /\ call' = [cryptoOptions |-> cryptoOptions, tokenOptions |-> tokenOptions]
    /\ gen' = GenerateToken(keys, cryptoOptions, tokenOptions, rnd)
    /\ pc' = "issued"
    /\ UNCHANGED <<keys, wire, tamper, dec, out, b64in, b64str, b64out>>

\* The receiving side: Buffer.from(token, 'base64') of the issued text.
Present ==
    /\ pc = "issued"
    /\ gen.kind = "token"
    /\ wire' = Base64Decode(gen.token)
    /\ pc' = "presented"
    /\ UNCHANGED <<keys, call, gen, tamper, dec, out, b64in, b64str, b64out>>

DecryptStep ==
    /\ pc = "presented"
    /\ dec' = DecryptToken(keys, wire)
    /\ pc' = "decrypted"
    /\ UNCHANGED <<keys, call, gen, wire, tamper, out, b64in, b64str, b64out>>

\* unpackToken runs on what decryptToken returned; a throw of decryptToken
\* ends the pipeline.
UnpackStep ==
    /\ pc = "decrypted"
    /\ dec.kind = "return"
    /\ out' = UnpackToken(dec.buf)
    /\ pc' = "done"
    /\ UNCHANGED <<keys, call, gen, wire, tamper, dec, b64in, b64str, b64out>>

IssueShort == \E o \in ShortOptions, r \in Rnd : Issue(Null, o, r)

IssueLong == \E c \in CryptoOptionsSet, o \in LongOptions, r \in Rnd : Issue(c, o, r)

Next ==
    \/ IssueShort
    \/ IssueLong
    \/ Present
    \/ DecryptStep
    \/ UnpackStep

Spec == Init /\ [][Next]_vars

(***************************************************************************)
(* Wire-level runs: the bytes decryptToken receives are an issued token    *)
(* changed in transit, the encryption of an arbitrary plaintext under the  *)
(* account AES key, or arbitrary bytes.                                    *)
(***************************************************************************)
WireOptions ==
    {WithLong(b, <<3>>, <<5, 0, 4112, 4660>>) : b \in {x \in BaseFields : x.pid # <<0, 0>>}}

WireRnd ==
    {r \in Rnd : \/ r.r1 = 0 /\ r.r2 = RandDen - 1 /\ r.key[1] = 255
                 \/ r.r1 = RandDen \div 2 /\ r.r2 = 0 /\ r.key[1] # 255}

\* Plaintexts of every length whose encryption takes the short path.
ForgedPlaintexts == {[i \in 1..n |-> (7 * i + n) % 256] : n \in 0..31}

RawWires == {[i \in 1..n |-> c] : n \in {0, 15, 16, 17, 32, 33, 129, 130, 150, 182}, c \in {0, 255}}

IssueWire ==
    \/ \E o \in WireOptions, r \in WireRnd : Issue(Null, o, r)
    \/ \E o \in WireOptions, r \in WireRnd :
          Issue([public_key |-> keys.rsa, hmac_secret |-> keys.secret], o, r)

Tampered(newWire, t) ==
    /\ pc = "presented"
    /\ tamper.kind = "none"
    /\ wire' = newWire
    /\ tamper' = t
    /\ UNCHANGED <<keys, pc, call, gen, dec, out, b64in, b64str, b64out>>

\* One bit of the signature (0x82..0x95) or of the encrypted body (0x96..)
\* of a long token is flipped.
FlipBit ==
    \E pos \in 130..(Len(wire) - 1), bit \in 0..7 :
        /\ Len(wire) > 32
        /\ Tampered([wire EXCEPT ![pos + 1] = Xor(@, 2 ^ bit)],
                    [kind |-> "flip", region |-> IF pos < 150 THEN "signature" ELSE "body",
                     pos |-> pos, bit |-> bit])

\* The byte at offset 0x80 or 0x81 is replaced by any value.
SetPoint ==
    \E off \in {128, 129}, v \in Byte :
        /\ Len(wire) > 32
        /\ Tampered([wire EXCEPT ![off + 1] = v],
                    [kind |-> "point", region |-> "config", pos |-> off, bit |-> v])

\* Only the first n bytes arrive.
Truncate ==
    \E n \in 0..(Len(wire) - 1) :
        Tampered(SubSeq(wire, 1, n),
                 [kind |-> "truncate", region |-> "none", pos |-> n, bit |-> 0])

Forge ==
    \E plain \in ForgedPlaintexts :
        /\ pc = "idle"
        /\ wire' = AesCbcEncrypt(keys.aes, Zeros(16), plain)
        /\ tamper' = [kind |-> "forged", region |-> "none", pos |-> Len(plain), bit |-> 0]
        /\ pc' = "presented"
        /\ UNCHANGED <<keys, call, gen, dec, out, b64in, b64str, b64out>>

Raw ==
    \E bytes \in RawWires :
        /\ pc = "idle"
        /\ wire' = bytes
        /\ tamper' = [kind |-> "raw", region |-> "none", pos |-> Len(bytes), bit |-> 0]
        /\ pc' = "presented"
        /\ UNCHANGED <<keys, call, gen, dec, out, b64in, b64str, b64out>>

NextWire ==
    \/ IssueWire
    \/ Present
    \/ FlipBit
    \/ SetPoint
    \/ Truncate
    \/ Forge
    \/ Raw
    \/ DecryptStep
    \/ UnpackStep

SpecWire == Init /\ [][NextWire]_vars

(***************************************************************************)
(* nintendoBase64 runs                                                     *)
(***************************************************************************)
MaxB64Len == 3

B64ByteSet == {0, 62, 65, 190, 239, 251, 255}

B64Inputs == UNION {[1..n -> B64ByteSet] : n \in 0..MaxB64Len}

InitB64 ==
    /\ keys \in {CHOOSE k \in KeyProviders : TRUE}
    /\ pc = "b64"
    /\ call = NoCall
    /\ gen = GenNothing
    /\ wire = << >>
    /\ tamper = NoTamper
    /\ dec = DecNothing
    /\ out = UnpackNothing
    /\ b64in \in B64Inputs
    /\ b64str = << >>
    /\ b64out = << >>

EncodeStep ==
    /\ pc = "b64"
    /\ b64str' = nintendoBase64Encode(b64in)
    /\ pc' = "encoded"
    /\ UNCHANGED <<keys, call, gen, wire, tamper, dec, out, b64in, b64out>>

DecodeStep ==
    /\ pc = "encoded"
    /\ b64out' = nintendoBase64Decode(b64str)
    /\ pc' = "decoded"
    /\ UNCHANGED <<keys, call, gen, wire, tamper, dec, out, b64in, b64str>>

NextB64 ==
    \/ EncodeStep
    \/ DecodeStep

SpecB64 == InitB64 /\ [][NextB64]_vars

(***************************************************************************)
(* Properties                                                              *)
(***************************************************************************)
Issued == pc \in {"issued", "presented", "decrypted", "done"} /\ tamper.kind \in {"none", "flip", "point", "truncate"}

Decrypted == pc \in {"decrypted", "done"}

LongCall == Issued /\ call.cryptoOptions # Null

ShortCall == Issued /\ call.cryptoOptions = Null

KeysMatch ==
    /\ call.cryptoOptions.public_key = keys.rsa
    /\ call.cryptoOptions.hmac_secret = keys.secret

\* decryptToken's signature-mismatch result: the AES decryption went
\* through, the signatures differ, the empty Buffer is returned.
IntegrityFailure ==
    /\ dec.kind = "return"
    /\ dec.path = "long"
    /\ dec.aesOk
    /\ ~dec.signatureOk
    /\ dec.buf = << >>

\* C1: a long field set with every field present (access_level = 0 and
\* title_id = 0 included), issued and decoded under matching keys, yields a
\* wire token and decodes to exactly its six fields.
C1_LongRoundTrip ==
    (/\ LongCall
     /\ KeysMatch
     /\ tamper.kind = "none"
     /\ call.tokenOptions.access_level # Absent
     /\ call.tokenOptions.title_id # Absent)
    => /\ gen.kind = "token"
       /\ Decrypted => dec.kind = "return"
       /\ pc = "done" =>
            /\ out.kind = "fields"
            /\ out.system_type = call.tokenOptions.system_type
            /\ out.token_type = call.tokenOptions.token_type
            /\ out.pid = call.tokenOptions.pid
            /\ out.access_level = call.tokenOptions.access_level
            /\ out.title_id = call.tokenOptions.title_id
            /\ out.expire_time = call.tokenOptions.expire_time

\* C2: a short field set issued with generateToken(null, F) under the
\* account AES key decodes, under the same key, to a 14-byte plaintext with
\* pid at offset 2 and expire_time at offset 6, and unpackToken returns
\* exactly the four fields of F.
C2_ShortRoundTrip ==
    (ShortCall /\ tamper.kind = "none")
    => /\ gen.kind = "token"
       /\ Decrypted =>
            /\ dec.kind = "return"
            /\ Len(dec.buf) = 14
            /\ ReadUIntLE(dec.buf, 2, 4) = call.tokenOptions.pid
            /\ ReadUIntLE(dec.buf, 6, 8) = call.tokenOptions.expire_time
       /\ pc = "done" =>
            /\ out.kind = "fields"
            /\ out.variant = "short"
            /\ out.system_type = call.tokenOptions.system_type
            /\ out.token_type = call.tokenOptions.token_type
            /\ out.pid = call.tokenOptions.pid
            /\ out.expire_time = call.tokenOptions.expire_time
            /\ out.access_level = Absent
            /\ out.title_id = Absent

C2_Witness ==
    /\ pc = "done"
    /\ ShortCall
    /\ keys.aes = Zeros(16)
    /\ call.tokenOptions.system_type = <<15>>
    /\ call.tokenOptions.pid = <<1, 34464>>
    /\ out.kind = "fields"
    /\ out.pid = <<1, 34464>>

\* C3 as stated: a long token with one bit of its signature or of its
\* encrypted body flipped always decodes to the integrity failure and to
\* no other outcome.
C3_TamperIsIntegrityFailure ==
    (tamper.kind = "flip" /\ Decrypted) => IntegrityFailure

\* C3 as amended: with one bit of the signature flipped decryptToken
\* returns its signature-mismatch result; with one bit of the encrypted
\* body flipped it either throws the decipher's unpad error or returns the
\* signature-mismatch result; in both cases no field set is produced.
C3_TamperNeverAccepted ==
    (tamper.kind = "flip" /\ Decrypted)
    => /\ tamper.region = "signature" => IntegrityFailure
       /\ tamper.region = "body" =>
            \/ IntegrityFailure
            \/ dec.kind = "throw" /\ dec.error = "bad decrypt"
       /\ dec.buf = << >>
       /\ pc = "done" => out.kind # "fields"

C3_Witness ==
    /\ pc = "decrypted"
    /\ tamper.kind = "flip"
    /\ tamper.region = "body"
    /\ dec.kind = "throw"
    /\ dec.error = "bad decrypt"

\* C4: when the AES decryption of a long token succeeds and the signatures
\* differ, decryptToken followed by unpackToken ends without an exception
\* and without a field set.
C4_IntegrityFailureIsNormalResult ==
    (pc = "done" /\ IntegrityFailure)
    => /\ out.kind # "throw"
       /\ out.kind # "fields"

\* C5: generateToken called with crypto material and a field set lacking
\* access_level or title_id returns null, never a token, and has done no
\* cryptographic work and no key-provider call.
C5_ValidationGate ==
    (/\ LongCall
     /\ \/ call.tokenOptions.access_level = Absent
        \/ call.tokenOptions.title_id = Absent)
    => /\ gen.kind = "null"
       /\ gen.token = << >>
       /\ gen.work = {}

C5_Witness ==
    /\ pc = "issued"
    /\ LongCall
    /\ call.tokenOptions.access_level = <<3>>
    /\ call.tokenOptions.title_id = Absent
    /\ gen.kind = "null"

\* The AES-encrypted part of the wire bytes: all of them on the short path,
\* the bytes from 0x96 on the long path.
EncryptedPart(w) == IF Len(w) <= 32 THEN w ELSE SubarrayFrom(w, 150)

\* The block decryption decryptToken performs leaves an invalid padding.
UnpadFails ==
    /\ Len(EncryptedPart(wire)) > 0
    /\ Len(EncryptedPart(wire)) % BlockLen = 0
    /\ IF Len(wire) <= 32
       THEN ~Pkcs7Valid(CbcDecryptBlocks(keys.aes, Zeros(16), wire))
       ELSE /\ RsaOaepDecrypt(keys.rsa, Subarray(wire, 0, 128)).ok
            /\ Len(dec.iv) = 16
            /\ ~Pkcs7Valid(CbcDecryptBlocks(RsaOaepDecrypt(keys.rsa, Subarray(wire, 0, 128)).data,
                                            dec.iv, EncryptedPart(wire)))

MalformedWire ==
    \/ Len(wire) = 0
    \/ Len(wire) \in 33..149
    \/ Len(EncryptedPart(wire)) % BlockLen # 0
    \/ UnpadFails

C7_NintendoBase64RoundTrip ==
    /\ pc \in {"encoded", "decoded"} =>
          \A i \in 1..Len(b64str) : b64str[i] \notin {"+", "/", "="}
    /\ pc \in {"encoded", "decoded"} => Len(b64str) = 4 * ((Len(b64in) + 2) \div 3)
    /\ pc = "decoded" => b64out = b64in

C7_Witness ==
    /\ pc = "decoded"
    /\ b64in = <<255, 255, 251>>
    /\ b64str = <<"-", "-", "-", "7">>
    /\ b64out = b64in

\* C8: in an issued long token the bytes at 0x80 and 0x81 are point1 and
\* point2, both in [0, 120); the IV used to encrypt is the two 8-byte
\* windows of the RSA ciphertext at those offsets; decryptToken derives the
\* same 16-byte IV.
C8_IvAgreement ==
    (LongCall /\ tamper.kind = "none" /\ gen.kind = "token"
     /\ pc \in {"presented", "decrypted", "done"})
    => /\ Len(gen.encryptedKey) = 128
       /\ SubSeq(wire, 1, 128) = gen.encryptedKey
       /\ wire[129] = gen.point1
       /\ wire[130] = gen.point2
       /\ gen.point1 \in 0..119
       /\ gen.point2 \in 0..119
       /\ gen.iv = SubSeq(wire, gen.point1 + 1, gen.point1 + 8)
                   \o SubSeq(wire, gen.point2 + 1, gen.point2 + 8)
       /\ Len(gen.iv) = 16
       /\ Decrypted =>
            /\ dec.point1 = gen.point1
            /\ dec.point2 = gen.point2
            /\ dec.iv = gen.iv

C8_Witness ==
    /\ pc = "decrypted"
    /\ LongCall
    /\ gen.kind = "token"
    /\ gen.point1 = 119
    /\ gen.point2 = 0
    /\ dec.iv = gen.iv
    /\ Len(dec.iv) = 16

\* C9: on the long path, whatever the bytes at 0x80 and 0x81, the offsets
\* decryptToken slices the RSA ciphertext at lie in [0, 120), both windows
\* are 8 bytes inside the ciphertext and the IV is 16 bytes.
C9_OffsetsRecast ==
    (Decrypted /\ Len(wire) >= 130)
    => /\ dec.point1 \in 0..119
       /\ dec.point2 \in 0..119
       /\ Len(dec.window1) = 8
       /\ Len(dec.window2) = 8
       /\ Len(dec.iv) = 16

\* C10: wire bytes of length <= 32 that decryptToken decrypts and unpads
\* come back as exactly 14 bytes, which unpackToken parses as the short
\* variant without reading past the end of the buffer.
C10_VariantAgreement ==
    (Decrypted /\ Len(wire) <= 32 /\ dec.kind = "return")
    => /\ Len(dec.buf) = 14
       /\ pc = "done" =>
            /\ out.kind = "fields"
            /\ out.variant = "short"

=============================================================================
